---- MODULE Spec2Model ----
(***************************************************************************)
(* Carbon footprint calculator (merged_carbon_calculator.py).              *)
(*                                                                         *)
(* One Streamlit session: st.session_state.footprint_data is the ledger,   *)
(* every script rerun executes at most one "Calculate ..." button handler. *)
(*                                                                         *)
(* Numbers.  The code computes in binary floating point.  A total is kept  *)
(* here as the exact rational num/unit, counted in hundredths of a ton     *)
(* (total = num / unit * 0.01 t), together with err, the sign of the       *)
(* difference between the double the code holds and that exact rational.   *)
(* The double is within a few ulp of the exact value, so err decides a     *)
(* comparison or a rounding only when the exact value lies on a breakpoint *)
(* or half-way between two hundredths; everywhere else it is 0.            *)
(* A stored Value is an integer number of hundredths of a ton.             *)
(* Breakpoints are in hundredths of a ton as well (2 t = 200).             *)
(***************************************************************************)
EXTENDS Integers, Sequences, FiniteSets, TLC

VARIABLES
    footprint_data,   \* st.session_state.footprint_data: sequence of rows
    clock,            \* the wall clock datetime.now() reads
    metric,           \* value shown by st.metric in this rerun: <<>> or <<v>>
    label,            \* label emitted by show_impact in this rerun, or "none"
    latest,           \* Category -> row shown in the composition chart
    shown,            \* argument show_impact was last called with: <<>> or <<r>>
    inputs,           \* widget values of every calculation, in order
    fperr             \* floating-point deviation fixed so far, per expression

vars == <<footprint_data, clock, metric, label, latest, shown, inputs, fperr>>

\* ------------------------------------------------------------------ bounds
MaxLedger == 3        \* calculations per session in Spec
MaxRuns == 2          \* calculations per session in SpecEstimate
MaxClock == 2         \* clock readings 0..MaxClock

\* --------------------------------------------------------------- constants
Categories == {"Household", "Transport", "Car", "Food"}

FuelTypes == {"Petrol", "Diesel", "Hybrid", "Electric"}

DietTypes == {"Meat lover", "Average", "Vegetarian", "Vegan"}

MealsRange == 1..21

MembersRange == 1..20

\* thresholds of show_impact: breakpoints (hundredths of a ton) and labels
thresholds ==
    [Household |-> [bp |-> <<200, 500, 1000>>,
                    labels |-> <<"Excellent!", "Moderate", "High", "Very High">>],
     Transport |-> [bp |-> <<100, 300, 500>>,
                    labels |-> <<"Great!", "Average", "High", "Very High">>],
     Car       |-> [bp |-> <<200, 400, 600>>,
                    labels |-> <<"Efficient!", "Average", "High", "Very High">>],
     Food      |-> [bp |-> <<150, 300, 450>>,
                    labels |-> <<"Sustainable!", "Average", "High", "Very High">>]]

\* car factors in hundredths of a kg CO2 (per litre; per km for Electric)
car_factors == [Petrol |-> 231, Diesel |-> 268, Hybrid |-> 150, Electric |-> 5]

\* food factors in tenths of a kg CO2 per meal
food_factors == ("Meat lover" :> 35) @@ ("Average" :> 25) @@
                ("Vegetarian" :> 15) @@ ("Vegan" :> 10)

\* ------------------------------------------------------------- arithmetic
Abs(x) == IF x < 0 THEN -x ELSE x

\* value < bp on doubles: value is the exact num/unit displaced by err
Lt(value, bp) ==
    \/ value.num < bp * value.unit
    \/ value.num = bp * value.unit /\ value.err < 0

\* round(total, 2): nearest hundredth of the double; a double that is
\* exactly half-way goes to the even neighbour
round2(total) ==
    LET q == total.num \div total.unit
        r == total.num % total.unit
    IN  IF 2 * r < total.unit THEN q
        ELSE IF 2 * r > total.unit THEN q + 1
        ELSE IF total.err > 0 THEN q + 1
        ELSE IF total.err < 0 THEN q
        ELSE IF q % 2 = 0 THEN q ELSE q + 1

\* the double round(total, 2) returns, as a value show_impact can take
Stored(v) == [num |-> v, unit |-> 1, err |-> 0]

\* --------------------------------------------------------------- estimators
household_total_precedence(in) ==
    [num  |-> (in.electricity * 708 + in.gas * 200 + in.oil * 2700) * in.members
              + in.coal * 2880,
     unit |-> 10000 * in.members]

\* lines 119-124; factors in millionths of a ton, so a hundredth is 10000
household_total(in) ==
    [num  |-> in.electricity * 708 + in.gas * 200 + in.oil * 2700
              + in.coal * 2880,
     unit |-> 10000 * in.members]

transport_total_minus(in) ==
    [num  |-> in.bus * 10 - in.train * 4 + in.taxi * 10 + in.flights * 20,
     unit |-> 1000]

\* lines 151-156; factors in hundred-thousandths of a ton
transport_total(in) ==
    [num  |-> in.bus * 10 + in.train * 4 + in.taxi * 10 + in.flights * 20,
     unit |-> 1000]

car_total_no_branch(in) ==
    [num  |-> in.distance * in.fuel_efficiency * car_factors[in.fuel_type],
     unit |-> 1000000]

\* lines 214-217; fuel_efficiency in tenths of L/100km
car_total(in) ==
    IF in.fuel_type = "Electric"
    THEN [num  |-> in.distance * car_factors[in.fuel_type],
          unit |-> 1000]
    ELSE [num  |-> in.distance * in.fuel_efficiency * car_factors[in.fuel_type],
          unit |-> 1000000]

food_total_daily(in) ==
    [num |-> in.meals * food_factors[in.diet_type] * 365, unit |-> 100]

\* line 252
food_total(in) ==
    [num |-> in.meals * food_factors[in.diet_type] * 52, unit |-> 100]

\* ------------------------------------------------------ floating-point error
\* the exact total lies where the deviation of the double can matter
Knife(cat, t) ==
    \/ 2 * (t.num % t.unit) = t.unit
    \/ \E i \in 1..3 : t.num = thresholds[cat].bp[i] * t.unit

\* the expression a double results from: the widget values it reads
FpKey(in) ==
    IF in.calc = "Car" /\ in.fuel_type = "Electric"
    THEN <<"Car", "Electric", in.distance>>
    ELSE <<in>>

\* deviations the double of this expression can have: the one already
\* observed in this session, else any sign; 0 where it cannot matter
FloatErr(in, t) ==
    IF ~Knife(in.calc, t) THEN {0}
    ELSE IF \E p \in fperr : p[1] = FpKey(in)
         THEN {p[2] : p \in {q \in fperr : q[1] = FpKey(in)}}
         ELSE {-1, 0, 1}

FloatSeen(in, t, err) ==
    IF Knife(in.calc, t) THEN fperr \cup {<<FpKey(in), err>>} ELSE fperr

Float(t, err) == [num |-> t.num, unit |-> t.unit, err |-> err]

\* ------------------------------------------------------------------ helpers
show_impact_le(value, category) ==
    LET th == thresholds[category]
        Le(v, bp) == Lt(v, bp) \/ (v.num = bp * v.unit /\ v.err = 0)
    IN  IF Le(value, th.bp[1]) THEN th.labels[1]
        ELSE IF Le(value, th.bp[2]) THEN th.labels[2]
        ELSE IF Le(value, th.bp[3]) THEN th.labels[3]
        ELSE th.labels[4]

\* lines 47-63
show_impact(value, category) ==
    LET th == thresholds[category]
    IN  IF Lt(value, th.bp[1]) THEN th.labels[1]
        ELSE IF Lt(value, th.bp[2]) THEN th.labels[2]
        ELSE IF Lt(value, th.bp[3]) THEN th.labels[3]
        ELSE th.labels[4]

save_data_prepend(data) == <<data>> \o footprint_data

\* lines 20-26: pd.concat([footprint_data, new_row], ignore_index=True)
save_data(data) == footprint_data \o <<data>>

\* DataFrame.dropna(): rows without a missing Value or Timestamp
dropna(rows) ==
    SelectSeq(rows, LAMBDA r : r.Value \in Int /\ r.Timestamp \in Int)

RECURSIVE groupby_first(_, _)
groupby_first(rows, acc) ==
    IF rows = <<>> THEN acc
    ELSE LET r == Head(rows)
         IN  groupby_first(Tail(rows),
                 IF r.Category \in DOMAIN acc THEN acc
                 ELSE (r.Category :> r) @@ acc)

\* groupby('Category').last(): scanning the rows in order, a later row of a
\* category replaces the earlier one
RECURSIVE groupby_last(_, _)
groupby_last(rows, acc) ==
    IF rows = <<>> THEN acc
    ELSE LET r == Head(rows)
         IN  groupby_last(Tail(rows),
                 (r.Category :> r) @@ [c \in DOMAIN acc \ {r.Category} |-> acc[c]])

show_visualizations_first(data) ==
    IF data = <<>> THEN <<>> ELSE groupby_first(dropna(data), <<>>)

\* lines 66-104: what the composition chart is drawn from
show_visualizations(data) ==
    IF data = <<>> THEN <<>> ELSE groupby_last(dropna(data), <<>>)

\* ---------------------------------------------------------------- the state
Init ==
    /\ footprint_data = <<>>
    /\ clock = 0
    /\ metric = <<>>
    /\ label = "none"
    /\ latest = <<>>
    /\ shown = <<>>
    /\ inputs = <<>>
    /\ fperr = {}

\* ------------------------------------------------------------------ inputs
\* widget values tried in Spec (sessions of up to MaxLedger calculations)
HouseholdSample ==
    {[calc |-> "Household", members |-> 1, electricity |-> x[1], gas |-> x[2],
      oil |-> 0, coal |-> 0] :
        x \in {<<0, 5000>>,        \* 1.0
               <<2819, 0>>}}       \* 1.995852

TransportSample ==
    {[calc |-> "Transport", bus |-> 0, train |-> 0, taxi |-> 0, flights |-> 2500]}

CarSample ==
    {[calc |-> "Car", distance |-> 100, fuel_type |-> "Petrol", fuel_efficiency |-> 80]}

FoodSample ==
    {[calc |-> "Food", diet_type |-> "Vegan", meals |-> 14]}

\* widget values tried in SpecEstimate (sessions of up to MaxRuns calculations)
HouseholdInputs ==
    {[calc |-> "Household", members |-> x[1], electricity |-> x[2], gas |-> x[3],
      oil |-> x[4], coal |-> x[5]] :
        x \in {<<1, 0, 0, 0, 0>>,          \* 0.0
               <<1, 1000, 0, 0, 0>>,       \* 0.708
               <<1, 2819, 0, 0, 0>>,       \* 1.995852
               <<1, 0, 9950, 0, 0>>,       \* 1.99
               <<1, 0, 10000, 0, 0>>,      \* 2.0, on a breakpoint
               <<1, 0, 25, 0, 0>>,         \* 0.005, half-way
               <<2, 1000, 1000, 1000, 1000>>,      \* 3.244
               <<3, 1000, 0, 0, 0>>,       \* 0.236
               <<20, 100000, 100000, 10000, 10000>>,   \* 7.33
               <<1, 100000, 100000, 10000, 10000>>}}   \* 146.6

TransportInputs ==
    {[calc |-> "Transport", bus |-> x[1], train |-> x[2], taxi |-> x[3],
      flights |-> x[4]] :
        x \in {<<0, 0, 0, 0>>,
               <<0, 0, 0, 1000>>,          \* 0.2
               <<1250, 0, 0, 0>>,          \* 0.125, half-way
               <<1000, 1000, 1000, 0>>,    \* 0.24
               <<0, 50000, 0, 0>>,         \* 2.0
               <<9960, 0, 0, 0>>,          \* 0.996
               <<10000, 0, 10000, 10000>>, \* 4.0
               <<50000, 50000, 50000, 500000>>}}   \* 112.0

CarInputs ==
    {[calc |-> "Car", distance |-> x[1], fuel_type |-> x[2],
      fuel_efficiency |-> x[3]] :
        x \in {<<0, "Petrol", 80>>,
               <<100, "Petrol", 80>>,      \* 0.01848
               <<100, "Electric", 80>>,    \* 0.005, half-way
               <<100, "Electric", 200>>,
               <<1000, "Electric", 0>>,    \* 0.05
               <<1000, "Electric", 80>>,
               <<1000, "Petrol", 0>>,      \* 0.0
               <<40000, "Electric", 80>>,  \* 2.0, on a breakpoint
               <<10000, "Diesel", 80>>,    \* 2.144
               <<10800, "Petrol", 80>>,    \* 1.99584
               <<10000, "Hybrid", 200>>,   \* 3.0
               <<20000, "Petrol", 200>>,   \* 9.24
               <<100000, "Electric", 80>>}}    \* 5.0

FoodInputs ==
    {[calc |-> "Food", diet_type |-> d, meals |-> m] :
        d \in DietTypes, m \in MealsRange}

\* value/category pairs show_impact is tried on in SpecClassify
ProbeValues ==
    {0, 1100} \cup
    UNION {{thresholds[c].bp[i] - 1, thresholds[c].bp[i], thresholds[c].bp[i] + 1} :
              c \in Categories, i \in 1..3}

\* ----------------------------------------------------------------- actions
\* lines 107-138, button "Calculate Household Footprint" pressed
household_calculator(in) ==
    /\ in.members \in MembersRange
    /\ \E err \in FloatErr(in, household_total(in)) :
        LET total == Float(household_total(in), err)
            new_data == [Type |-> "Household", Value |-> round2(total),
                         Timestamp |-> clock, Category |-> "Household"]
        IN  /\ metric' = <<round2(total)>>
            /\ label' = show_impact(total, "Household")
            /\ shown' = <<[category |-> "Household", value |-> total]>>
            /\ footprint_data' = save_data(new_data)
            /\ latest' = show_visualizations(footprint_data')
            /\ fperr' = FloatSeen(in, household_total(in), err)
    /\ inputs' = Append(inputs, in)
    /\ UNCHANGED clock

\* lines 140-170, button "Calculate Transport Footprint" pressed
transport_calculator(in) ==
    /\ \E err \in FloatErr(in, transport_total(in)) :
        LET total == Float(transport_total(in), err)
            new_data == [Type |-> "Transport", Value |-> round2(total),
                         Timestamp |-> clock, Category |-> "Transport"]
        IN  /\ metric' = <<round2(total)>>
            /\ label' = show_impact(total, "Transport")
            /\ shown' = <<[category |-> "Transport", value |-> total]>>
            /\ footprint_data' = save_data(new_data)
            /\ latest' = show_visualizations(footprint_data')
            /\ fperr' = FloatSeen(in, transport_total(in), err)
    /\ inputs' = Append(inputs, in)
    /\ UNCHANGED clock

\* lines 196-230, button "Calculate Car Footprint" pressed
main_car(in) ==
    /\ in.fuel_type \in FuelTypes
    /\ \E err \in FloatErr(in, car_total(in)) :
        LET total == Float(car_total(in), err)
            new_data == [Type |-> "Car", Value |-> round2(total),
                         Timestamp |-> clock, Category |-> "Car"]
        IN  /\ metric' = <<round2(total)>>
            /\ label' = show_impact(total, "Car")
            /\ shown' = <<[category |-> "Car", value |-> total]>>
            /\ footprint_data' = save_data(new_data)
            /\ latest' = show_visualizations(footprint_data')
            /\ fperr' = FloatSeen(in, car_total(in), err)
    /\ inputs' = Append(inputs, in)
    /\ UNCHANGED clock

\* lines 232-265, button "Calculate Food Footprint" pressed
main_food(in) ==
    /\ in.diet_type \in DietTypes
    /\ in.meals \in MealsRange
    /\ \E err \in FloatErr(in, food_total(in)) :
        LET total == Float(food_total(in), err)
            new_data == [Type |-> "Food", Value |-> round2(total),
                         Timestamp |-> clock, Category |-> "Food"]
        IN  /\ metric' = <<round2(total)>>
            /\ label' = show_impact(total, "Food")
            /\ shown' = <<[category |-> "Food", value |-> total]>>
            /\ footprint_data' = save_data(new_data)
            /\ latest' = show_visualizations(footprint_data')
            /\ fperr' = FloatSeen(in, food_total(in), err)
    /\ inputs' = Append(inputs, in)
    /\ UNCHANGED clock

\* a rerun of the script with no button pressed (a widget was edited):
\* lines 15-18 keep the existing footprint_data, no handler body runs
Rerun ==
    /\ metric' = <<>>
    /\ label' = "none"
    /\ latest' = <<>>
    /\ shown' = <<>>
    /\ UNCHANGED <<footprint_data, clock, inputs, fperr>>

\* time passes on the wall clock
Tick ==
    /\ clock < MaxClock
    /\ clock' = clock + 1
    /\ UNCHANGED <<footprint_data, metric, label, latest, shown, inputs, fperr>>

\* the wall clock is set back (datetime.now() is naive local time: clock
\* synchronisation, end of daylight saving time, manual change)
ClockBack ==
    /\ clock > 0
    /\ \E t \in 0..(clock - 1) : clock' = t
    /\ UNCHANGED <<footprint_data, metric, label, latest, shown, inputs, fperr>>

\* show_impact applied to a value with two decimals
Classify(category, v) ==
    /\ shown' = <<[category |-> category, value |-> Stored(v)]>>
    /\ label' = show_impact(Stored(v), category)
    /\ UNCHANGED <<footprint_data, clock, metric, latest, inputs, fperr>>

\* ----------------------------------------------------------- specifications
\* one rerun of main() per button, widgets holding values of the Spec samples
HouseholdStep ==
    /\ Len(footprint_data) < MaxLedger
    /\ \E in \in HouseholdSample : household_calculator(in)

TransportStep ==
    /\ Len(footprint_data) < MaxLedger
    /\ \E in \in TransportSample : transport_calculator(in)

CarStep ==
    /\ Len(footprint_data) < MaxLedger
    /\ \E in \in CarSample : main_car(in)

FoodStep ==
    /\ Len(footprint_data) < MaxLedger
    /\ \E in \in FoodSample : main_food(in)

Next ==
    \/ HouseholdStep
    \/ TransportStep
    \/ CarStep
    \/ FoodStep
    \/ Rerun
    \/ Tick
    \/ ClockBack

Spec == Init /\ [][Next]_vars

\* the same handlers over the wider input sets, the clock standing still
HouseholdEstimate ==
    /\ Len(footprint_data) < MaxRuns
    /\ \E in \in HouseholdInputs : household_calculator(in)

TransportEstimate ==
    /\ Len(footprint_data) < MaxRuns
    /\ \E in \in TransportInputs : transport_calculator(in)

CarEstimate ==
    /\ Len(footprint_data) < MaxRuns
    /\ \E in \in CarInputs : main_car(in)

FoodEstimate ==
    /\ Len(footprint_data) < MaxRuns
    /\ \E in \in FoodInputs : main_food(in)

NextEstimate ==
    \/ HouseholdEstimate
    \/ TransportEstimate
    \/ CarEstimate
    \/ FoodEstimate
    \/ Rerun

SpecEstimate == Init /\ [][NextEstimate]_vars

NextClassify == \E c \in Categories, v \in ProbeValues : Classify(c, v)

SpecClassify == Init /\ [][NextClassify]_vars

\* ------------------------------------------------------------------- claims
Last(seq) == seq[Len(seq)]

Calculated == metric # <<>>

\* C1: the value classified into an impact label is the value rounded to two
\* decimals, the one stored in the appended record and displayed: after every
\* calculation the label shown is the classification of the stored value.
C1_LabelOfStoredValue ==
    Calculated =>
        LET r == Last(footprint_data)
        IN  /\ metric = <<r.Value>>
            /\ label = show_impact(Stored(r.Value), r.Category)

\* the tables as the claims state them (hundredths of a ton)
ClaimBreakpoints ==
    [Household |-> <<200, 500, 1000>>, Transport |-> <<100, 300, 500>>,
     Car |-> <<200, 400, 600>>, Food |-> <<150, 300, 450>>]

ClaimLabels ==
    [Household |-> <<"Excellent!", "Moderate", "High", "Very High">>,
     Transport |-> <<"Great!", "Average", "High", "Very High">>,
     Car |-> <<"Efficient!", "Average", "High", "Very High">>,
     Food |-> <<"Sustainable!", "Average", "High", "Very High">>]

\* C2: a value is given L0 if value < b0, L1 if b0 <= value < b1, L2 if
\* b1 <= value < b2, else L3; a value equal to a breakpoint falls in the worse
\* band (Household 1.99 is Excellent, 2.0 is Moderate).
C2_Bands ==
    (shown # <<>> /\ shown[1].value.unit = 1) =>
        LET x == shown[1].value.num
            b == ClaimBreakpoints[shown[1].category]
            L == ClaimLabels[shown[1].category]
        IN  /\ (x < b[1]) => label = L[1]
            /\ (b[1] <= x /\ x < b[2]) => label = L[2]
            /\ (b[2] <= x /\ x < b[3]) => label = L[3]
            /\ (b[3] <= x) => label = L[4]
            /\ (shown[1].category = "Household" /\ x = 199) => label = "Excellent!"
            /\ (shown[1].category = "Household" /\ x = 200) => label = "Moderate"

C2_Witness ==
    /\ shown # <<>>
    /\ shown[1].category = "Household"
    /\ shown[1].value = [num |-> 200, unit |-> 1, err |-> 0]
    /\ label = "Moderate"

\* C3: the ledger is empty at session start, holds exactly one record per
\* calculation performed, in order and with the calculator's category, and a
\* step either leaves it alone or appends one record behind the unchanged
\* earlier ones.
C3_AppendOnly ==
    /\ footprint_data = <<>>
    /\ [](/\ Len(footprint_data) = Len(inputs)
          /\ \A i \in 1..Len(footprint_data) :
                /\ footprint_data[i].Category = inputs[i].calc
                /\ footprint_data[i].Type = inputs[i].calc)
    /\ [][\/ /\ footprint_data' = footprint_data
             /\ inputs' = inputs
          \/ /\ Len(footprint_data') = Len(footprint_data) + 1
             /\ SubSeq(footprint_data', 1, Len(footprint_data)) = footprint_data
             /\ Len(inputs') = Len(inputs) + 1]_vars

C3_Witness ==
    /\ Len(footprint_data) = 3
    /\ footprint_data[1].Category = "Household"
    /\ footprint_data[2].Category = "Food"
    /\ footprint_data[3].Category = "Household"
    /\ footprint_data[1].Value # footprint_data[3].Value
    /\ ~Calculated

\* position of the last row of a category
LastIndex(c) ==
    CHOOSE i \in 1..Len(footprint_data) :
        /\ footprint_data[i].Category = c
        /\ \A j \in (i + 1)..Len(footprint_data) : footprint_data[j].Category # c

\* C4: the latest-per-category view holds, for each category with a record,
\* the most recently appended record of that category, and nothing for a
\* category never appended.
C4_LatestPerCategory ==
    Calculated =>
        /\ DOMAIN latest =
               {footprint_data[i].Category : i \in 1..Len(footprint_data)}
        /\ \A c \in DOMAIN latest : latest[c] = footprint_data[LastIndex(c)]

\* Household(1.0), Household(2.0), Transport(0.5) gives
\* {Household: 2.0, Transport: 0.5}
C4_Witness ==
    /\ Calculated
    /\ Len(footprint_data) = 3
    /\ footprint_data[1].Category = "Household" /\ footprint_data[1].Value = 100
    /\ footprint_data[2].Category = "Household" /\ footprint_data[2].Value = 200
    /\ footprint_data[3].Category = "Transport" /\ footprint_data[3].Value = 50
    /\ DOMAIN latest = {"Household", "Transport"}
    /\ latest["Household"].Value = 200
    /\ latest["Transport"].Value = 50

\* C6: every record of the ledger has a value >= 0 (a whole number of
\* hundredths of a ton).
C6_NonNegative ==
    \A i \in 1..Len(footprint_data) :
        /\ footprint_data[i].Value \in Nat
        /\ footprint_data[i].Value >= 0

C6_Witness ==
    /\ Len(footprint_data) = 2
    /\ inputs[1] = [calc |-> "Transport", bus |-> 0, train |-> 50000,
                    taxi |-> 0, flights |-> 0]
    /\ footprint_data[1].Value = 200
    /\ inputs[2].calc = "Household"
    /\ footprint_data[2].Value = 0

\* C7: the car estimate stored is distance * 0.05 / 1000 for Electric,
\* whatever the fuel efficiency, and distance * (efficiency / 100) * factor /
\* 1000 otherwise (Petrol 2.31, Diesel 2.68, Hybrid 1.50), to the nearest
\* hundredth; distance 100, Petrol, 8 L/100km gives 0.02.
C7_CarEstimate ==
    /\ \A i \in 1..Len(inputs) :
          inputs[i].calc = "Car" =>
              LET in == inputs[i]
                  v == footprint_data[i].Value
                  factor == [Petrol |-> 231, Diesel |-> 268, Hybrid |-> 150]
              IN  /\ in.fuel_type = "Electric" =>
                        2 * Abs(v * 1000 - in.distance * 5) <= 1000
                  /\ in.fuel_type # "Electric" =>
                        2 * Abs(v * 1000000 - in.distance * in.fuel_efficiency
                                              * factor[in.fuel_type]) <= 1000000
                  /\ (in.distance = 100 /\ in.fuel_type = "Petrol"
                        /\ in.fuel_efficiency = 80) => v = 2
    /\ \A i, j \in 1..Len(inputs) :
          (/\ inputs[i].calc = "Car" /\ inputs[j].calc = "Car"
           /\ inputs[i].fuel_type = "Electric" /\ inputs[j].fuel_type = "Electric"
           /\ inputs[i].distance = inputs[j].distance)
          => footprint_data[i].Value = footprint_data[j].Value

C7_Witness ==
    /\ Len(inputs) = 2
    /\ inputs[1] = [calc |-> "Car", distance |-> 1000, fuel_type |-> "Electric",
                    fuel_efficiency |-> 0]
    /\ inputs[2] = [calc |-> "Car", distance |-> 1000, fuel_type |-> "Electric",
                    fuel_efficiency |-> 80]
    /\ footprint_data[1].Value = 5
    /\ footprint_data[2].Value = 5

\* C8: the household estimate stored is (electricity * 0.000708 + gas * 0.0002
\* + oil * 0.0027 + coal * 0.00288) / members to the nearest hundredth, the
\* whole sum being divided; members 1, electricity 1000 gives 0.71.
C8_HouseholdEstimate ==
    \A i \in 1..Len(inputs) :
        inputs[i].calc = "Household" =>
            LET in == inputs[i]
                v == footprint_data[i].Value
                sum == in.electricity * 708 + in.gas * 200 + in.oil * 2700
                       + in.coal * 2880
            IN  /\ in.members >= 1
                /\ 2 * Abs(v * 10000 * in.members - sum) <= 10000 * in.members
                /\ (in.members = 1 /\ in.electricity = 1000 /\ in.gas = 0
                      /\ in.oil = 0 /\ in.coal = 0) => v = 71

C8_Witness ==
    /\ Len(inputs) = 2
    /\ inputs[1] = [calc |-> "Household", members |-> 2, electricity |-> 1000,
                    gas |-> 1000, oil |-> 1000, coal |-> 1000]
    /\ footprint_data[1].Value = 324
    /\ inputs[2] = [calc |-> "Household", members |-> 1, electricity |-> 1000,
                    gas |-> 0, oil |-> 0, coal |-> 0]
    /\ footprint_data[2].Value = 71

\* C9: the timestamps of the ledger's records never decrease in insertion
\* order.
C9_TimestampsMonotone ==
    \A i, j \in 1..Len(footprint_data) :
        i < j => footprint_data[i].Timestamp <= footprint_data[j].Timestamp

\* C10: a Food estimate is below the top breakpoint 4.5, so the label of a
\* Food calculation is Sustainable, Average or High, never Very High.
C10_FoodNeverVeryHigh ==
    (Calculated /\ shown[1].category = "Food") =>
        /\ shown[1].value.num < 450 * shown[1].value.unit
        /\ Last(footprint_data).Value < 450
        /\ label \in {"Sustainable!", "Average", "High"}

C10_Witness ==
    /\ Calculated
    /\ Last(inputs) = [calc |-> "Food", diet_type |-> "Meat lover", meals |-> 21]
    /\ Last(footprint_data).Value = 382
    /\ label = "High"

====
